---- MODULE Spec2Model ----
(***************************************************************************)
(* Expense approval workflow of the expense-reimbursement server:          *)
(* the Expense model (routes/expenses.js, models/Expense.js), the role     *)
(* permission table (models/User.js) and the company configuration         *)
(* (models/Company.js).                                                     *)
(*                                                                         *)
(* Conventions.  JavaScript undefined/null is NoDate (0) for a Date,       *)
(* NoUser for a user reference, NoNumber (-1) for a Number, NoStatus for   *)
(* finalStatus and NoComment for a string.  A string that the code trims   *)
(* is a sequence of tokens, the token " " being a blank: comments are      *)
(* sequences of characters, a category name is one token possibly with     *)
(* blanks around it.  Array indexes of the code are                        *)
(* zero-based; a TLA+ sequence holds element i of the array at i + 1.      *)
(* new Date() is read from the record's own logical clock (Now): every     *)
(* save of a record advances its updatedAt (timestamps: true).             *)
(***************************************************************************)
EXTENDS Integers, Sequences, FiniteSets, TLC

VARIABLES users, company, expenses, requests, response

vars == <<users, company, expenses, requests, response>>

-----------------------------------------------------------------------------
(* Bounds of the model *)

MaxExpenses == 1

MaxRules == 1

MaxRequests == 2

MaxChain == 2

MaxClock == 4

MaxBuildRules == 2

MaxSame == 2

-----------------------------------------------------------------------------
(* Values *)

NoUser == "none"

NoStatus == "none"

NoDate == 0

NoNumber == -1

NoComment == <<"undefined">>

Users == {"admin", "mgr", "fin", "emp"}

Roles == {"admin", "manager", "employee"}

Categories == {<<"Travel">>}

Amounts == {100}

CurrencyCodes == {"USD"}

RateAnswers == {NoNumber, 0, 2}

ApproveComments == {NoComment, <<" ", "x">>}

RejectComments == {NoComment, <<" ">>, <<" ", "x">>}

-----------------------------------------------------------------------------
(* models/User.js *)

getPermissions(role) ==
  CASE role = "admin" ->
         {"create_company", "manage_users", "set_roles", "configure_approval_rules",
          "view_all_expenses", "override_approvals", "view_reports", "manage_categories"}
    [] role = "manager" ->
         {"approve_expenses", "reject_expenses", "view_team_expenses",
          "escalate_expenses", "view_reports"}
    [] OTHER ->
         {"submit_expenses", "view_own_expenses", "track_approval_status", "upload_receipts"}

hasPermission(user, permission) == permission \in getPermissions(user.role)

(* middleware/auth.js requirePermission: the request passes iff the caller  *)
(* holds the permission.                                                   *)
requirePermission(user, permission) == hasPermission(user, permission)

-----------------------------------------------------------------------------
(* Strings: String.prototype.trim as used by express-validator's trim()     *)

RECURSIVE TrimLeft(_)
TrimLeft(s) ==
  IF Len(s) > 0 /\ Head(s) = " " THEN TrimLeft(Tail(s)) ELSE s

RECURSIVE TrimRight(_)
TrimRight(s) ==
  IF Len(s) > 0 /\ s[Len(s)] = " " THEN TrimRight(SubSeq(s, 1, Len(s) - 1)) ELSE s

Trim(s) == TrimRight(TrimLeft(s))

(* body('comments').optional().trim(): an absent field is left alone        *)
OptionalTrim(c) == IF c = NoComment THEN NoComment ELSE Trim(c)

(* Mutant of RequiredTrim: the field is not trimmed *)
RequiredTrim_NoTrim(c) == IF c = NoComment THEN <<>> ELSE c

(* body('comments').trim().notEmpty(): an absent field is the empty string  *)
RequiredTrim(c) == IF c = NoComment THEN <<>> ELSE Trim(c)

-----------------------------------------------------------------------------
(* models/Expense.js *)

Step(approver, order) ==
  [approver |-> approver, status |-> "pending", comments |-> NoComment,
   processedAt |-> NoDate, order |-> order]

(* new Date() as read by a handler working on record exp *)
Now(exp) == exp.updatedAt + 1

HasActiveStep(exp) ==
  exp.approvalWorkflow.currentStep + 1 \in DOMAIN exp.approvalWorkflow.steps

ActiveStep(exp) == exp.approvalWorkflow.steps[exp.approvalWorkflow.currentStep + 1]

(* Mutant of canBeApprovedBy: any approver of a still-pending step passes *)
canBeApprovedBy_AnyStep(exp, userId) ==
  IF exp.status # "pending_approval" THEN FALSE
  ELSE \E k \in DOMAIN exp.approvalWorkflow.steps :
          /\ exp.approvalWorkflow.steps[k].approver = userId
          /\ exp.approvalWorkflow.steps[k].status = "pending"

(* Mutant of canBeApprovedBy: the status of the step is not looked at *)
canBeApprovedBy_AnyStepStatus(exp, userId) ==
  IF exp.status # "pending_approval" THEN FALSE
  ELSE /\ HasActiveStep(exp)
       /\ ActiveStep(exp).approver = userId

canBeApprovedBy(exp, userId) ==
  IF exp.status # "pending_approval" THEN FALSE
  ELSE /\ HasActiveStep(exp)
       /\ ActiveStep(exp).approver = userId
       /\ ActiveStep(exp).status = "pending"

(* the guard of approve and of reject: true when the method throws *)
transitionThrows(exp, approverId) ==
  \/ ~HasActiveStep(exp)
  \/ ActiveStep(exp).approver # approverId

processStep(exp, newStatus, comments, t) ==
  LET i == exp.approvalWorkflow.currentStep + 1
  IN  [exp EXCEPT !.approvalWorkflow.steps[i].status = newStatus,
                  !.approvalWorkflow.steps[i].comments = comments,
                  !.approvalWorkflow.steps[i].processedAt = t]

(* Mutant of approve: the amount is converted again, at the fallback rate *)
approve_Reconverts(exp, approverId, comments, t) ==
  LET marked == processStep(exp, "approved", comments, t)
      again == [marked EXCEPT !.convertedAmount = exp.amount * 1]
  IN  IF exp.approvalWorkflow.currentStep + 1 < Len(exp.approvalWorkflow.steps)
      THEN [again EXCEPT !.approvalWorkflow.currentStep = @ + 1]
      ELSE [again EXCEPT !.status = "approved",
                         !.approvedAt = t,
                         !.approvalWorkflow.completedAt = t,
                         !.approvalWorkflow.finalStatus = "approved"]

(* Mutant of approve: the step is marked but currentStep never advances *)
approve_NoAdvance(exp, approverId, comments, t) ==
  LET marked == processStep(exp, "approved", comments, t)
  IN  IF exp.approvalWorkflow.currentStep + 1 < Len(exp.approvalWorkflow.steps)
      THEN marked
      ELSE [marked EXCEPT !.status = "approved",
                          !.approvedAt = t,
                          !.approvalWorkflow.completedAt = t,
                          !.approvalWorkflow.finalStatus = "approved"]

(* Mutant of approve: the expense completes one step early *)
approve_OffByOne(exp, approverId, comments, t) ==
  LET marked == processStep(exp, "approved", comments, t)
  IN  IF exp.approvalWorkflow.currentStep + 2 < Len(exp.approvalWorkflow.steps)
      THEN [marked EXCEPT !.approvalWorkflow.currentStep = @ + 1]
      ELSE [marked EXCEPT !.status = "approved",
                          !.approvedAt = t,
                          !.approvalWorkflow.completedAt = t,
                          !.approvalWorkflow.finalStatus = "approved"]

(* Mutant of approve: currentStep advances past the last step *)
approve_AlwaysAdvance(exp, approverId, comments, t) ==
  LET marked == processStep(exp, "approved", comments, t)
  IN  IF exp.approvalWorkflow.currentStep + 1 < Len(exp.approvalWorkflow.steps)
      THEN [marked EXCEPT !.approvalWorkflow.currentStep = @ + 1]
      ELSE [marked EXCEPT !.status = "approved",
                          !.approvedAt = t,
                          !.approvalWorkflow.currentStep = @ + 1,
                          !.approvalWorkflow.completedAt = t,
                          !.approvalWorkflow.finalStatus = "approved"]

(* Mutant of approve: the last step is marked but the expense never completes *)
approve_NeverCompletes(exp, approverId, comments, t) ==
  LET marked == processStep(exp, "approved", comments, t)
  IN  IF exp.approvalWorkflow.currentStep + 1 < Len(exp.approvalWorkflow.steps)
      THEN [marked EXCEPT !.approvalWorkflow.currentStep = @ + 1]
      ELSE marked

approve(exp, approverId, comments, t) ==
  LET marked == processStep(exp, "approved", comments, t)
  IN  IF exp.approvalWorkflow.currentStep + 1 < Len(exp.approvalWorkflow.steps)
      THEN [marked EXCEPT !.approvalWorkflow.currentStep = @ + 1]
      ELSE [marked EXCEPT !.status = "approved",
                          !.approvedAt = t,
                          !.approvalWorkflow.completedAt = t,
                          !.approvalWorkflow.finalStatus = "approved"]

(* Mutant of reject: a rejection discards the steps that were still to come *)
reject_DropsRemaining(exp, approverId, comments, t) ==
  LET marked == processStep(exp, "rejected", comments, t)
  IN  [marked EXCEPT !.status = "rejected",
                     !.rejectedAt = t,
                     !.approvalWorkflow.steps =
                        SubSeq(@, 1, exp.approvalWorkflow.currentStep + 1),
                     !.approvalWorkflow.completedAt = t,
                     !.approvalWorkflow.finalStatus = "rejected"]

(* Mutant of reject: a rejection moves on to the next step when there is one *)
reject_Advances(exp, approverId, comments, t) ==
  LET marked == processStep(exp, "rejected", comments, t)
  IN  [marked EXCEPT !.status = "rejected",
                     !.rejectedAt = t,
                     !.approvalWorkflow.currentStep =
                        IF @ + 1 < Len(exp.approvalWorkflow.steps) THEN @ + 1 ELSE @,
                     !.approvalWorkflow.completedAt = t,
                     !.approvalWorkflow.finalStatus = "rejected"]

reject(exp, approverId, comments, t) ==
  LET marked == processStep(exp, "rejected", comments, t)
  IN  [marked EXCEPT !.status = "rejected",
                     !.rejectedAt = t,
                     !.approvalWorkflow.completedAt = t,
                     !.approvalWorkflow.finalStatus = "rejected"]

(* expense.save(): the paths the handler modified on the document it       *)
(* loaded are written to the stored record; every other path of the stored *)
(* record is left as it is.                                                *)
Dirty(stored, loaded, modified) == IF modified # loaded THEN modified ELSE stored

saveSteps(stored, loaded, modified) ==
  IF DOMAIN modified # DOMAIN loaded \/ DOMAIN stored # DOMAIN loaded THEN modified
  ELSE
  [i \in DOMAIN stored |->
     [approver    |-> Dirty(stored[i].approver, loaded[i].approver, modified[i].approver),
      status      |-> Dirty(stored[i].status, loaded[i].status, modified[i].status),
      comments    |-> Dirty(stored[i].comments, loaded[i].comments, modified[i].comments),
      processedAt |-> Dirty(stored[i].processedAt, loaded[i].processedAt,
                            modified[i].processedAt),
      order       |-> Dirty(stored[i].order, loaded[i].order, modified[i].order)]]

save(stored, loaded, modified, t) ==
  [stored EXCEPT
     !.amount = Dirty(stored.amount, loaded.amount, modified.amount),
     !.currency = Dirty(stored.currency, loaded.currency, modified.currency),
     !.convertedAmount = Dirty(stored.convertedAmount, loaded.convertedAmount,
                               modified.convertedAmount),
     !.status = Dirty(stored.status, loaded.status, modified.status),
     !.submittedAt = Dirty(stored.submittedAt, loaded.submittedAt, modified.submittedAt),
     !.approvedAt = Dirty(stored.approvedAt, loaded.approvedAt, modified.approvedAt),
     !.rejectedAt = Dirty(stored.rejectedAt, loaded.rejectedAt, modified.rejectedAt),
     !.approvalWorkflow =
        [currentStep |-> Dirty(stored.approvalWorkflow.currentStep,
                               loaded.approvalWorkflow.currentStep,
                               modified.approvalWorkflow.currentStep),
         steps       |-> saveSteps(stored.approvalWorkflow.steps,
                                   loaded.approvalWorkflow.steps,
                                   modified.approvalWorkflow.steps),
         completedAt |-> Dirty(stored.approvalWorkflow.completedAt,
                               loaded.approvalWorkflow.completedAt,
                               modified.approvalWorkflow.completedAt),
         finalStatus |-> Dirty(stored.approvalWorkflow.finalStatus,
                               loaded.approvalWorkflow.finalStatus,
                               modified.approvalWorkflow.finalStatus)],
     !.updatedAt = t]

-----------------------------------------------------------------------------
(* routes/expenses.js: helpers *)

BaseCurrency == "USD"

(* Mutant of getExchangeRate: a failed call is not caught *)
getExchangeRate_NoFallback(fromCurrency, toCurrency, api) ==
  IF fromCurrency = toCurrency THEN 1 ELSE api

(* api is the answer of the rate service: NoNumber when the call fails,     *)
(* else the rate of the target currency (0 when the answer has none)        *)
getExchangeRate(fromCurrency, toCurrency, api) ==
  IF fromCurrency = toCurrency THEN 1
  ELSE IF api = NoNumber THEN 1
  ELSE IF api # 0 THEN api ELSE 1

(* JavaScript truthiness of a Number *)
Truthy(n) == n # NoNumber /\ n # 0

isApplicable(rule, convertedAmount, category) ==
  IF ~rule.isActive THEN FALSE
  ELSE IF Truthy(rule.minAmount) /\ convertedAmount < rule.minAmount THEN FALSE
  ELSE IF Truthy(rule.maxAmount) /\ convertedAmount > rule.maxAmount THEN FALSE
  ELSE IF Len(rule.categories) > 0
          /\ ~(\E k \in DOMAIN rule.categories : rule.categories[k] = category) THEN FALSE
  ELSE TRUE

(* Array.prototype.filter keeps the order of the rules *)
RECURSIVE filterRules(_, _, _)
filterRules(rules, convertedAmount, category) ==
  IF rules = <<>> THEN <<>>
  ELSE IF isApplicable(Head(rules), convertedAmount, category)
       THEN <<Head(rules)>> \o filterRules(Tail(rules), convertedAmount, category)
       ELSE filterRules(Tail(rules), convertedAmount, category)

(* A reference held while the workflow is built: the ObjectId stored in a   *)
(* rule, or the User document that populate('manager') put in its place     *)
ObjectId(u) == [id |-> u, populated |-> FALSE]

PopulatedDoc(u) == [id |-> u, populated |-> TRUE]

(* ObjectId.prototype.toString gives the hex id; Document.prototype.toString *)
(* of Mongoose gives the inspected document, which is never a hex id         *)
toString(ref) == IF ref.populated THEN <<"{ _id:", ref.id, "}">> ELSE <<ref.id>>

(* the cast of the approver path when the workflow is assigned to the expense *)
castObjectId(ref) == ref.id

inWorkflow(steps, user) ==
  \E k \in DOMAIN steps : toString(steps[k].approver) = toString(user)

(* specificApprovers.forEach: acc is [steps, stepOrder] *)
RECURSIVE addApprovers(_, _)
addApprovers(acc, approvers) ==
  IF approvers = <<>> THEN acc
  ELSE IF ~inWorkflow(acc.steps, ObjectId(Head(approvers).user))
       THEN addApprovers([steps |-> Append(acc.steps,
                                           Step(ObjectId(Head(approvers).user),
                                                acc.stepOrder)),
                          stepOrder |-> acc.stepOrder + 1],
                         Tail(approvers))
       ELSE addApprovers(acc, Tail(approvers))

(* steps.sort((a, b) => a.order - b.order): a stable sort *)
RECURSIVE insertByOrder(_, _)
insertByOrder(sorted, s) ==
  IF sorted = <<>> THEN <<s>>
  ELSE IF sorted[Len(sorted)].order <= s.order THEN Append(sorted, s)
  ELSE Append(insertByOrder(SubSeq(sorted, 1, Len(sorted) - 1), s), sorted[Len(sorted)])

RECURSIVE sortByOrder(_)
sortByOrder(steps) ==
  IF steps = <<>> THEN <<>>
  ELSE insertByOrder(sortByOrder(SubSeq(steps, 1, Len(steps) - 1)), steps[Len(steps)])

castSteps(steps) ==
  [k \in DOMAIN steps |-> [steps[k] EXCEPT !.approver = castObjectId(@)]]

(* Mutant of managerStep: the setting is not consulted *)
managerStep_IgnoresSetting(manager, comp) ==
  IF manager # NoUser
  THEN [steps |-> <<Step(PopulatedDoc(manager), 0)>>, stepOrder |-> 1]
  ELSE [steps |-> <<>>, stepOrder |-> 0]

(* Step 1: the manager step; manager is the populated employee.manager *)
managerStep(manager, comp) ==
  IF comp.settings.isManagerApproverEnabled /\ manager # NoUser
  THEN [steps |-> <<Step(PopulatedDoc(manager), 0)>>, stepOrder |-> 1]
  ELSE [steps |-> <<>>, stepOrder |-> 0]

(* Mutant of applyFirstRule: every applicable rule contributes *)
RECURSIVE applyFirstRule_AllRules(_, _)
applyFirstRule_AllRules(acc, applicableRules) ==
  IF applicableRules = <<>> THEN acc
  ELSE LET rule == Head(applicableRules)
       IN  applyFirstRule_AllRules(
             IF rule.type = "specific" \/ rule.type = "hybrid"
             THEN addApprovers(acc, rule.specificApprovers)
             ELSE acc,
             Tail(applicableRules))

(* Step 2: the first matching rule *)
applyFirstRule(acc, applicableRules) ==
  IF Len(applicableRules) > 0
  THEN LET rule == applicableRules[1]
       IN  IF rule.type = "specific" \/ rule.type = "hybrid"
           THEN addApprovers(acc, rule.specificApprovers)
           ELSE acc
  ELSE acc

(* Mutant of defaultAdmin: the admin step is added to every chain *)
defaultAdmin_Always(steps, admin) ==
  IF admin # NoUser THEN Append(steps, Step(ObjectId(admin), 0)) ELSE steps

(* the default admin approver; admin is the answer of User.findOne *)
defaultAdmin(steps, admin) ==
  IF Len(steps) = 0
  THEN IF admin # NoUser THEN <<Step(ObjectId(admin), 0)>> ELSE <<>>
  ELSE steps

createApprovalWorkflow(manager, convertedAmount, category, comp, admin) ==
  LET afterManager == managerStep(manager, comp)
      applicableRules == filterRules(comp.approvalRules, convertedAmount, category)
      afterRules == applyFirstRule(afterManager, applicableRules)
      steps == defaultAdmin(afterRules.steps, admin)
  IN  [currentStep |-> 0, steps |-> castSteps(sortByOrder(steps)),
       completedAt |-> NoDate, finalStatus |-> NoStatus]

(* User.findOne({company, role: 'admin', isActive: true}): the answers the  *)
(* query can give                                                          *)
findOneAdmin(us) ==
  LET found == {u \in Users : us[u].role = "admin" /\ us[u].isActive}
  IN  IF found = {} THEN {NoUser} ELSE found

-----------------------------------------------------------------------------
(* The organization the model runs on *)

SeqsUpTo(S, n) == UNION {[1..k -> S] : k \in 0..n}

Approver(u) == [user |-> u, autoApprove |-> FALSE]

Rule(type, approvers, minAmount, maxAmount, categories) ==
  [type |-> type, percentage |-> IF type = "specific" THEN NoNumber ELSE 60,
   specificApprovers |-> approvers, minAmount |-> minAmount, maxAmount |-> maxAmount,
   categories |-> categories, isActive |-> TRUE]

RuleSet ==
  { Rule("specific", <<Approver("fin")>>, 0, NoNumber, << <<"Travel">> >>),
    Rule("hybrid", <<Approver("fin"), Approver("admin")>>, 50, NoNumber, <<>>) }

InitRole(u) ==
  CASE u = "admin" -> "admin"
    [] u = "emp" -> "employee"
    [] OTHER -> "manager"

NoResponse == [op |-> "none", user |-> NoUser, id |-> 0, code |-> 0, message |-> ""]

Response(op, user, id, code, message) ==
  [op |-> op, user |-> user, id |-> id, code |-> code, message |-> message]

(* the answer together with the req.body it answers *)
Request(body, op, user, id, code, message) ==
  [op |-> op, user |-> user, id |-> id, code |-> code, message |-> message, body |-> body]

Idle == [pc |-> "idle"]

(* the users of the company: emp reports to m, the admin is active iff a *)
Staff(m, a) ==
  [u \in Users |->
     [role |-> InitRole(u),
      manager |-> IF u = "emp" THEN m ELSE NoUser,
      isActive |-> IF u = "admin" THEN a ELSE TRUE]]

ActiveCategories ==
  <<[name |-> <<"Travel">>, isActive |-> TRUE], [name |-> <<"Meals">>, isActive |-> TRUE]>>

Organization(rules, en, maxExpenseAmount, categories) ==
  [defaultCurrency |-> [code |-> BaseCurrency],
   expenseCategories |-> categories,
   approvalRules |-> rules,
   settings |-> [isManagerApproverEnabled |-> en, maxExpenseAmount |-> maxExpenseAmount]]

Init ==
  /\ \E m \in {NoUser, "mgr"}, a \in BOOLEAN : users = Staff(m, a)
  /\ \E rules \in SeqsUpTo(RuleSet, MaxRules), en \in BOOLEAN :
       company = Organization(rules, en, 10000, ActiveCategories)
  /\ expenses = <<>>
  /\ requests = [r \in 1..MaxRequests |-> Idle]
  /\ response = NoResponse

-----------------------------------------------------------------------------
(* routes/expenses.js: POST /api/expenses *)

(* Mutant of validCategory: inactive categories are accepted *)
validCategory_IgnoresActive(comp, category) ==
  \E k \in DOMAIN comp.expenseCategories : comp.expenseCategories[k].name = category

validCategory(comp, category) ==
  \E k \in DOMAIN comp.expenseCategories :
     comp.expenseCategories[k].name = category /\ comp.expenseCategories[k].isActive

newExpense(u, amount, code, rate, category, workflow) ==
  [employee |-> u, amount |-> amount, currency |-> [code |-> code, rate |-> rate],
   convertedAmount |-> amount * rate, category |-> category, status |-> "draft",
   approvalWorkflow |-> workflow,
   submittedAt |-> NoDate, approvedAt |-> NoDate, rejectedAt |-> NoDate,
   receipts |-> <<>>, notes |-> <<>>,
   createdAt |-> 1, updatedAt |-> 1]

(* req.body of POST /api/expenses, as sent *)
CreateBody(amount, code, category) ==
  [amount |-> amount, currency |-> [code |-> code], category |-> category]

CreateExpense(u, amount, code, category, api, admin) ==
  /\ admin \in findOneAdmin(users)
  /\ UNCHANGED <<users, company, requests>>
  /\ LET id == Len(expenses) + 1
         body == CreateBody(amount, code, category)
         trimmed == Trim(category)
         exchangeRate == getExchangeRate(code, company.defaultCurrency.code, api)
         convertedAmount == amount * exchangeRate
     IN  IF ~requirePermission(users[u], "submit_expenses")
         THEN /\ response' = Request(body, "create", u, 0, 403, "Insufficient permissions")
              /\ UNCHANGED expenses
         ELSE IF trimmed = <<>>
         THEN /\ response' = Request(body, "create", u, 0, 400, "Validation errors")
              /\ UNCHANGED expenses
         ELSE IF ~validCategory(company, trimmed)
         THEN /\ response' = Request(body, "create", u, 0, 400, "Invalid expense category")
              /\ UNCHANGED expenses
         ELSE IF Truthy(company.settings.maxExpenseAmount)
                 /\ convertedAmount > company.settings.maxExpenseAmount
         THEN /\ response' = Request(body, "create", u, 0, 400,
                                     "Expense amount exceeds company limit")
              /\ UNCHANGED expenses
         ELSE /\ expenses' =
                   Append(expenses,
                          newExpense(u, amount, code, exchangeRate, trimmed,
                                     createApprovalWorkflow(users[u].manager, convertedAmount,
                                                            trimmed, company, admin)))
              /\ response' = Request(body, "create", u, id, 201, "Expense created successfully")

-----------------------------------------------------------------------------
(* routes/expenses.js: PUT /api/expenses/:id/submit *)

(* Mutant of submit: no auto-approval of an empty workflow *)
submit_NoAutoApprove(exp, t) ==
  [exp EXCEPT !.status = "pending_approval", !.submittedAt = t]

submit(exp, t) ==
  LET n == Len(exp.approvalWorkflow.steps)
      marked == [exp EXCEPT !.status = IF n > 0 THEN "pending_approval" ELSE "approved",
                            !.submittedAt = t]
  IN  IF n = 0
      THEN [marked EXCEPT !.approvedAt = t,
                          !.approvalWorkflow.completedAt = t,
                          !.approvalWorkflow.finalStatus = "approved"]
      ELSE marked

Outcome(exp, code, message) == [exp |-> exp, code |-> code, message |-> message]

(* Mutant of submitRoute: the draft check is missing *)
submitRoute_NoStateCheck(u, stored, loaded) ==
  IF loaded.employee # u
  THEN Outcome(stored, 403, "Access denied")
  ELSE Outcome(save(stored, loaded, submit(loaded, Now(stored)), Now(stored)),
               200, "Expense submitted successfully")

(* The submit handler from the loaded document on *)
submitRoute(u, stored, loaded) ==
  IF loaded.employee # u
  THEN Outcome(stored, 403, "Access denied")
  ELSE IF loaded.status # "draft"
  THEN Outcome(stored, 400, "Expense can only be submitted from draft status")
  ELSE Outcome(save(stored, loaded, submit(loaded, Now(stored)), Now(stored)),
               200, "Expense submitted successfully")

(* Mutant of SubmitExpense: every draft of the owner is submitted with it *)
SubmitExpense_AllDrafts(u, id) ==
  /\ UNCHANGED <<users, company, requests>>
  /\ IF id \notin DOMAIN expenses
     THEN /\ response' = Response("submit", u, id, 404, "Expense not found")
          /\ UNCHANGED expenses
     ELSE LET out == submitRoute(u, expenses[id], expenses[id])
          IN  /\ expenses' =
                   [i \in DOMAIN expenses |->
                      IF out.code = 200 /\ expenses[i].employee = u
                      THEN submitRoute(u, expenses[i], expenses[i]).exp
                      ELSE IF i = id THEN out.exp ELSE expenses[i]]
              /\ response' = Response("submit", u, id, out.code, out.message)

SubmitExpense(u, id) ==
  /\ UNCHANGED <<users, company, requests>>
  /\ IF id \notin DOMAIN expenses
     THEN /\ response' = Response("submit", u, id, 404, "Expense not found")
          /\ UNCHANGED expenses
     ELSE LET out == submitRoute(u, expenses[id], expenses[id])
          IN  /\ expenses' = [expenses EXCEPT ![id] = out.exp]
              /\ response' = Response("submit", u, id, out.code, out.message)

-----------------------------------------------------------------------------
(* routes/expenses.js: PUT /api/expenses/:id/approve and /:id/reject        *)

(* Mutant of approveRoute: the canBeApprovedBy gate is missing *)
approveRoute_NoGate(u, comments, stored, loaded) ==
  IF transitionThrows(loaded, u)
  THEN Outcome(stored, 500, "Unauthorized to approve this expense")
  ELSE Outcome(save(stored, loaded, approve(loaded, u, comments, Now(stored)), Now(stored)),
               200, "Expense approved successfully")

(* The approve handler from the loaded document on: loaded is the document  *)
(* findById returned, stored the record at the time of the save.            *)
approveRoute(u, comments, stored, loaded) ==
  IF ~canBeApprovedBy(loaded, u)
  THEN Outcome(stored, 403, "You are not authorized to approve this expense")
  ELSE IF transitionThrows(loaded, u)
  THEN Outcome(stored, 500, "Unauthorized to approve this expense")
  ELSE Outcome(save(stored, loaded, approve(loaded, u, comments, Now(stored)), Now(stored)),
               200, "Expense approved successfully")

rejectRoute(u, comments, stored, loaded) ==
  IF ~canBeApprovedBy(loaded, u)
  THEN Outcome(stored, 403, "You are not authorized to reject this expense")
  ELSE IF transitionThrows(loaded, u)
  THEN Outcome(stored, 500, "Unauthorized to reject this expense")
  ELSE Outcome(save(stored, loaded, reject(loaded, u, comments, Now(stored)), Now(stored)),
               200, "Expense rejected successfully")

(* The handlers run to completion without interleaving *)
ApproveExpense(u, id, c) ==
  /\ UNCHANGED <<users, company, requests>>
  /\ IF ~requirePermission(users[u], "approve_expenses")
     THEN /\ response' = Response("approve", u, id, 403, "Insufficient permissions")
          /\ UNCHANGED expenses
     ELSE IF id \notin DOMAIN expenses
     THEN /\ response' = Response("approve", u, id, 404, "Expense not found")
          /\ UNCHANGED expenses
     ELSE LET out == approveRoute(u, OptionalTrim(c), expenses[id], expenses[id])
          IN  /\ expenses' = [expenses EXCEPT ![id] = out.exp]
              /\ response' = Response("approve", u, id, out.code, out.message)

RejectExpense(u, id, c) ==
  /\ UNCHANGED <<users, company, requests>>
  /\ IF ~requirePermission(users[u], "reject_expenses")
     THEN /\ response' = Response("reject", u, id, 403, "Insufficient permissions")
          /\ UNCHANGED expenses
     ELSE IF RequiredTrim(c) = <<>>
     THEN /\ response' = Response("reject", u, id, 400, "Validation errors")
          /\ UNCHANGED expenses
     ELSE IF id \notin DOMAIN expenses
     THEN /\ response' = Response("reject", u, id, 404, "Expense not found")
          /\ UNCHANGED expenses
     ELSE LET out == rejectRoute(u, RequiredTrim(c), expenses[id], expenses[id])
          IN  /\ expenses' = [expenses EXCEPT ![id] = out.exp]
              /\ response' = Response("reject", u, id, out.code, out.message)

ExpenseIds == 1..MaxExpenses

Create ==
  /\ Len(expenses) < MaxExpenses
  /\ \E u \in Users, amount \in Amounts, code \in CurrencyCodes, category \in Categories,
        api \in RateAnswers, admin \in Users \cup {NoUser} :
          CreateExpense(u, amount, code, category, api, admin)

Submit == \E u \in Users, id \in ExpenseIds : SubmitExpense(u, id)

Approve == \E u \in Users, id \in ExpenseIds, c \in ApproveComments : ApproveExpense(u, id, c)

Reject == \E u \in Users, id \in ExpenseIds, c \in RejectComments : RejectExpense(u, id, c)

Next == Create \/ Submit \/ Approve \/ Reject

Spec == Init /\ [][Next]_vars

-----------------------------------------------------------------------------
(* The approve and reject handlers as the server runs them: a handler       *)
(* yields at await Expense.findById(...) and other requests run before it   *)
(* continues.  From the loaded document to the save the handler is          *)
(* synchronous.  requests[r] is the position of request r; a request that   *)
(* has answered is done.                                                    *)

Done == [pc |-> "done"]

Loaded(op, u, id, c, doc) ==
  [pc |-> "loaded", op |-> op, user |-> u, id |-> id, comments |-> c, doc |-> doc]

BeginApprove(r, u, id, c) ==
  /\ requests[r] = Idle
  /\ UNCHANGED <<users, company, expenses>>
  /\ IF ~requirePermission(users[u], "approve_expenses")
     THEN /\ response' = Response("approve", u, id, 403, "Insufficient permissions")
          /\ UNCHANGED requests
     ELSE IF id \notin DOMAIN expenses
     THEN /\ response' = Response("approve", u, id, 404, "Expense not found")
          /\ UNCHANGED requests
     ELSE /\ requests' = [requests EXCEPT
                            ![r] = Loaded("approve", u, id, OptionalTrim(c), expenses[id])]
          /\ UNCHANGED response

BeginReject(r, u, id, c) ==
  /\ requests[r] = Idle
  /\ UNCHANGED <<users, company, expenses>>
  /\ IF ~requirePermission(users[u], "reject_expenses")
     THEN /\ response' = Response("reject", u, id, 403, "Insufficient permissions")
          /\ UNCHANGED requests
     ELSE IF RequiredTrim(c) = <<>>
     THEN /\ response' = Response("reject", u, id, 400, "Validation errors")
          /\ UNCHANGED requests
     ELSE IF id \notin DOMAIN expenses
     THEN /\ response' = Response("reject", u, id, 404, "Expense not found")
          /\ UNCHANGED requests
     ELSE /\ requests' = [requests EXCEPT
                            ![r] = Loaded("reject", u, id, RequiredTrim(c), expenses[id])]
          /\ UNCHANGED response

FinishApprove(r) ==
  /\ requests[r].pc = "loaded"
  /\ requests[r].op = "approve"
  /\ UNCHANGED <<users, company>>
  /\ LET q == requests[r]
         out == approveRoute(q.user, q.comments, expenses[q.id], q.doc)
     IN  /\ expenses' = [expenses EXCEPT ![q.id] = out.exp]
         /\ response' = Response("approve", q.user, q.id, out.code, out.message)
  /\ requests' = [requests EXCEPT ![r] = Done]

FinishReject(r) ==
  /\ requests[r].pc = "loaded"
  /\ requests[r].op = "reject"
  /\ UNCHANGED <<users, company>>
  /\ LET q == requests[r]
         out == rejectRoute(q.user, q.comments, expenses[q.id], q.doc)
     IN  /\ expenses' = [expenses EXCEPT ![q.id] = out.exp]
         /\ response' = Response("reject", q.user, q.id, out.code, out.message)
  /\ requests' = [requests EXCEPT ![r] = Done]

RequestIds == 1..MaxRequests

BeginA ==
  \E r \in RequestIds, u \in Users, id \in ExpenseIds, c \in ApproveComments :
     BeginApprove(r, u, id, c)

BeginR ==
  \E r \in RequestIds, u \in Users, id \in ExpenseIds, c \in RejectComments :
     BeginReject(r, u, id, c)

FinishA == \E r \in RequestIds : FinishApprove(r)

FinishR == \E r \in RequestIds : FinishReject(r)

NextConc == Create \/ Submit \/ BeginA \/ BeginR \/ FinishA \/ FinishR

SpecConc == Init /\ [][NextConc]_vars

-----------------------------------------------------------------------------
(* routes/companies.js, routes/users.js: changes to the organization        *)

(* req.body of POST /api/companies/approval-rules; an absent number is      *)
(* NoNumber, an absent list is <<>>                                         *)
RuleBody(type, percentage, approvers, minAmount, maxAmount, categories) ==
  [type |-> type, percentage |-> percentage, specificApprovers |-> approvers,
   minAmount |-> minAmount, maxAmount |-> maxAmount, categories |-> categories]

(* x || fallback on a Number *)
OrElse(x, fallback) == IF Truthy(x) THEN x ELSE fallback

newRule(body) ==
  [type |-> body.type,
   percentage |-> OrElse(body.percentage, NoNumber),
   specificApprovers |-> body.specificApprovers,
   minAmount |-> OrElse(body.minAmount, 0),
   maxAmount |-> OrElse(body.maxAmount, NoNumber),
   categories |-> body.categories,
   isActive |-> TRUE]

AddApprovalRule(u, body) ==
  /\ UNCHANGED <<users, expenses, requests>>
  /\ IF ~requirePermission(users[u], "configure_approval_rules")
     THEN /\ response' = Request(body, "addRule", u, 0, 403, "Insufficient permissions")
          /\ UNCHANGED company
     ELSE IF body.type = "percentage" /\ ~Truthy(body.percentage)
     THEN /\ response' = Request(body, "addRule", u, 0, 400,
                                 "Percentage is required for percentage type rules")
          /\ UNCHANGED company
     ELSE IF body.type = "specific" /\ body.specificApprovers = <<>>
     THEN /\ response' = Request(body, "addRule", u, 0, 400,
                                 "Specific approvers are required for specific type rules")
          /\ UNCHANGED company
     ELSE /\ company' = [company EXCEPT !.approvalRules = Append(@, newRule(body))]
          /\ response' = Request(body, "addRule", u, 0, 201, "Approval rule added successfully")

(* { ...company.settings, ...settings }: settings is the part of the        *)
(* settings the body names                                                  *)
mergeSettings(current, settings) ==
  [f \in DOMAIN current |-> IF f \in DOMAIN settings THEN settings[f] ELSE current[f]]

UpdateCompany(u, settings) ==
  /\ UNCHANGED <<users, expenses, requests>>
  /\ IF ~requirePermission(users[u], "create_company")
     THEN /\ response' = Request(settings, "updateCompany", u, 0, 403, "Insufficient permissions")
          /\ UNCHANGED company
     ELSE /\ company' = [company EXCEPT !.settings = mergeSettings(@, settings)]
          /\ response' = Request(settings, "updateCompany", u, 0, 200,
                                 "Company updated successfully")

(* PUT /api/users/:id; body is the part of the user the request names, a    *)
(* manager of NoUser is null                                                *)
UpdateUser(u, target, body) ==
  /\ UNCHANGED <<company, expenses, requests>>
  /\ IF ~requirePermission(users[u], "manage_users")
     THEN /\ response' = Request(body, "updateUser", u, 0, 403, "Insufficient permissions")
          /\ UNCHANGED users
     ELSE IF target \notin Users
     THEN /\ response' = Request(body, "updateUser", u, 0, 404, "User not found")
          /\ UNCHANGED users
     ELSE IF "manager" \in DOMAIN body /\ body.manager # NoUser /\ body.manager \notin Users
     THEN /\ response' = Request(body, "updateUser", u, 0, 400, "Invalid manager selected")
          /\ UNCHANGED users
     ELSE /\ users' = [users EXCEPT ![target] =
                         [f \in DOMAIN @ |-> IF f \in DOMAIN body THEN body[f] ELSE @[f]]]
          /\ response' = Request(body, "updateUser", u, 0, 200, "User updated successfully")

-----------------------------------------------------------------------------
(* routes/expenses.js: POST /:id/notes; routes/upload.js: receipts          *)

canAccess(exp, user, u) ==
  \/ user.role = "admin"
  \/ exp.employee = u
  \/ \E k \in DOMAIN exp.approvalWorkflow.steps :
        exp.approvalWorkflow.steps[k].approver = u

AddNote(u, id, content) ==
  /\ UNCHANGED <<users, company, requests>>
  /\ IF RequiredTrim(content) = <<>>
     THEN /\ response' = Response("note", u, id, 400, "Validation errors")
          /\ UNCHANGED expenses
     ELSE IF id \notin DOMAIN expenses
     THEN /\ response' = Response("note", u, id, 404, "Expense not found")
          /\ UNCHANGED expenses
     ELSE IF ~canAccess(expenses[id], users[u], u)
     THEN /\ response' = Response("note", u, id, 403, "Access denied")
          /\ UNCHANGED expenses
     ELSE /\ expenses' = [expenses EXCEPT
                            ![id].notes = Append(@, [author |-> u,
                                                     content |-> RequiredTrim(content),
                                                     createdAt |-> Now(expenses[id])]),
                            ![id].updatedAt = Now(expenses[id])]
          /\ response' = Response("note", u, id, 201, "Note added successfully")

(* POST /receipt with an expenseId: the receipt is named by its upload time *)
UploadReceipt(u, id) ==
  /\ UNCHANGED <<users, company, requests>>
  /\ IF ~requirePermission(users[u], "upload_receipts")
     THEN /\ response' = Response("upload", u, id, 403, "Insufficient permissions")
          /\ UNCHANGED expenses
     ELSE IF id \notin DOMAIN expenses \/ expenses[id].employee # u
     THEN /\ response' = Response("upload", u, id, 403, "Access denied to this expense")
          /\ UNCHANGED expenses
     ELSE /\ expenses' = [expenses EXCEPT
                            ![id].receipts = Append(@, [id |-> Now(expenses[id])]),
                            ![id].updatedAt = Now(expenses[id])]
          /\ response' = Response("upload", u, id, 200,
                                  "Receipt uploaded and processed successfully")

(* Mutant of splice: everything from the index on is removed *)
splice_DropsRest(seq, i) == SubSeq(seq, 1, i - 1)

(* Array.prototype.splice(receiptIndex, 1) *)
splice(seq, i) == SubSeq(seq, 1, i - 1) \o SubSeq(seq, i + 1, Len(seq))

DeleteReceipt(u, id, receiptId) ==
  /\ UNCHANGED <<users, company, requests>>
  /\ IF id \notin DOMAIN expenses
     THEN /\ response' = Response("deleteReceipt", u, id, 404, "Expense not found")
          /\ UNCHANGED expenses
     ELSE IF expenses[id].employee # u
     THEN /\ response' = Response("deleteReceipt", u, id, 403, "Access denied")
          /\ UNCHANGED expenses
     ELSE IF ~(\E k \in DOMAIN expenses[id].receipts : expenses[id].receipts[k].id = receiptId)
     THEN /\ response' = Response("deleteReceipt", u, id, 404, "Receipt not found")
          /\ UNCHANGED expenses
     ELSE LET receiptIndex ==
                CHOOSE k \in DOMAIN expenses[id].receipts :
                   expenses[id].receipts[k].id = receiptId
          IN  /\ expenses' = [expenses EXCEPT
                                ![id].receipts = splice(@, receiptIndex),
                                ![id].updatedAt = Now(expenses[id])]
              /\ response' = Response("deleteReceipt", u, id, 200,
                                      "Receipt deleted successfully")

-----------------------------------------------------------------------------
(* One expense followed through its workflow while the organization is      *)
(* reconfigured: rules are added, the manager setting is switched and the   *)
(* employee is given another manager.  Expenses are separate documents, so  *)
(* the specification creates a single one.                                  *)

OrgRuleBodies ==
  { RuleBody("specific", NoNumber, <<Approver("fin")>>, NoNumber, 0, <<>>),
    RuleBody("hybrid", 60, <<Approver("fin"), Approver("admin")>>, 50, NoNumber, <<>>) }

OrgSettings == {[isManagerApproverEnabled |-> FALSE], [isManagerApproverEnabled |-> TRUE]}

OrgManagers == {NoUser, "mgr", "fin"}

OrgCallers == {"admin", "mgr"}

InitOrg ==
  /\ users = Staff("mgr", TRUE)
  /\ company = Organization(<<>>, TRUE, 10000, ActiveCategories)
  /\ expenses = <<>>
  /\ requests = [r \in 1..MaxRequests |-> Idle]
  /\ response = NoResponse

CreateOne ==
  /\ expenses = <<>>
  /\ \E admin \in Users \cup {NoUser} :
        CreateExpense("emp", 100, "EUR", <<"Travel">>, 2, admin)

SubmitOne == \E u \in {"emp", "mgr"} : SubmitExpense(u, 1)

ApproveOne == \E u \in Users : ApproveExpense(u, 1, NoComment)

RejectOne == \E u \in Users : RejectExpense(u, 1, <<"x">>)

AddRule ==
  /\ Len(company.approvalRules) < MaxRules
  /\ \E u \in OrgCallers, body \in OrgRuleBodies : AddApprovalRule(u, body)

Settings == \E u \in OrgCallers, settings \in OrgSettings : UpdateCompany(u, settings)

Reassign == \E u \in OrgCallers, m \in OrgManagers : UpdateUser(u, "emp", [manager |-> m])

NextOrg ==
  \/ CreateOne \/ SubmitOne \/ ApproveOne \/ RejectOne
  \/ AddRule \/ Settings \/ Reassign

SpecOrg == InitOrg /\ [][NextOrg]_vars

-----------------------------------------------------------------------------
(* One expense followed through its workflow while notes and receipts are   *)
(* attached to it and receipts are deleted again.                           *)

InitAttach ==
  /\ users = Staff("mgr", TRUE)
  /\ company = Organization(<<Rule("specific", <<Approver("fin")>>, 0, NoNumber, <<>>)>>,
                            TRUE, 10000, ActiveCategories)
  /\ expenses = <<>>
  /\ requests = [r \in 1..MaxRequests |-> Idle]
  /\ response = NoResponse

(* notes and receipts are attached while the clock of the expense is at     *)
(* most MaxClock                                                            *)
AttachOpen == 1 \in DOMAIN expenses => Now(expenses[1]) <= MaxClock

Note == AttachOpen /\ \E u \in Users : AddNote(u, 1, <<"n", " ">>)

Upload == AttachOpen /\ \E u \in {"emp", "mgr"} : UploadReceipt(u, 1)

Delete ==
  /\ AttachOpen
  /\ \E u \in {"emp", "mgr"}, receiptId \in 0..MaxClock : DeleteReceipt(u, 1, receiptId)

NextAttach ==
  \/ CreateOne \/ SubmitOne \/ ApproveOne \/ RejectOne
  \/ Note \/ Upload \/ Delete

SpecAttach == InitAttach /\ [][NextAttach]_vars

-----------------------------------------------------------------------------
(* canBeApprovedBy as a function of the document: it is asked of documents  *)
(* with every combination of status, currentStep and step statuses, also    *)
(* those no sequence of whole requests produces.                            *)

ChainApprovers == <<"mgr", "fin", "admin", "emp">>

DocStatuses == {"draft", "pending_approval", "approved", "rejected"}

StepStatuses == {"pending", "approved", "rejected"}

Document(status, currentStep, stepStatuses) ==
  [newExpense("emp", 100, BaseCurrency, 1, <<"Travel">>,
              [currentStep |-> currentStep,
               steps |-> [k \in DOMAIN stepStatuses |->
                            [Step(ChainApprovers[k], k - 1) EXCEPT !.status = stepStatuses[k]]],
               completedAt |-> NoDate, finalStatus |-> NoStatus])
     EXCEPT !.status = status]

InitCan ==
  /\ users = Staff("mgr", TRUE)
  /\ company = Organization(<<>>, TRUE, 10000, ActiveCategories)
  /\ \E status \in DocStatuses, currentStep \in 0..MaxChain,
        stepStatuses \in SeqsUpTo(StepStatuses, MaxChain) :
       expenses = <<Document(status, currentStep, stepStatuses)>>
  /\ requests = [r \in 1..MaxRequests |-> Idle]
  /\ response = NoResponse

AskCanBeApprovedBy(u, id) ==
  /\ id \in DOMAIN expenses
  /\ response' = Response("canBeApprovedBy", u, id, 0,
                          IF canBeApprovedBy(expenses[id], u) THEN "true" ELSE "false")
  /\ UNCHANGED <<users, company, expenses, requests>>

NextCan == \E u \in Users, id \in ExpenseIds : AskCanBeApprovedBy(u, id)

SpecCan == InitCan /\ [][NextCan]_vars

-----------------------------------------------------------------------------
(* The workflow builder over organizations: the administrator configures    *)
(* approval rules, then one creation request is answered.                   *)

BuildManagers == {NoUser, "mgr", "fin"}

BuildLimits == {0, 200, 10000}

BuildCategories ==
  ActiveCategories \o <<[name |-> <<"Gifts">>, isActive |-> FALSE]>>

BuildRuleBodies ==
  { RuleBody("percentage", 60, <<Approver("fin")>>, NoNumber, NoNumber, <<>>),
    RuleBody("specific", NoNumber, <<Approver("fin"), Approver("mgr"), Approver("fin")>>,
             100, 200, <<>>),
    RuleBody("hybrid", 60, <<Approver("fin"), Approver("mgr"), Approver("fin")>>,
             100, 200, <<>>),
    RuleBody("specific", NoNumber, <<Approver("mgr")>>, NoNumber, 0, << <<"Travel">> >>) }

BuildAmounts == {50, 100, 200, 300}

BuildCurrencies == {"USD", "EUR"}

BuildCategoryInputs ==
  {<<"Travel">>, <<" ", "Travel">>, <<"Meals">>, <<"Gifts">>, <<"travel">>, <<" ">>}

InitBuild ==
  /\ \E m \in BuildManagers, a \in BOOLEAN : users = Staff(m, a)
  /\ \E en \in BOOLEAN, limit \in BuildLimits :
       company = Organization(<<>>, en, limit, BuildCategories)
  /\ expenses = <<>>
  /\ requests = [r \in 1..MaxRequests |-> Idle]
  /\ response = NoResponse

Configure ==
  /\ expenses = <<>>
  /\ response.op # "create"
  /\ Len(company.approvalRules) < MaxBuildRules
  /\ \E body \in BuildRuleBodies : AddApprovalRule("admin", body)

Build ==
  /\ expenses = <<>>
  /\ response.op # "create"
  /\ \E u \in {"emp", "mgr"}, amount \in BuildAmounts, code \in BuildCurrencies,
        category \in BuildCategoryInputs, api \in {NoNumber, 2},
        admin \in findOneAdmin(users) :
        CreateExpense(u, amount, code, category, api, admin)

NextBuild == Configure \/ Build

SpecBuild == InitBuild /\ [][NextBuild]_vars

-----------------------------------------------------------------------------
(* Two expenses of the same employee, each with the chain [mgr]: submit on  *)
(* either of them, and approve and reject split at their await, so that a   *)
(* request on one expense runs between the load and the save of a request   *)
(* on the other.  Request r works on expense TargetOf(r).                   *)

PairIds == {1, 2}

PairExpense ==
  newExpense("emp", 100, "USD", 1, <<"Travel">>,
             createApprovalWorkflow("mgr", 100, <<"Travel">>,
                                    Organization(<<>>, TRUE, 10000, ActiveCategories),
                                    "admin"))

InitPair ==
  /\ users = Staff("mgr", TRUE)
  /\ company = Organization(<<>>, TRUE, 10000, ActiveCategories)
  /\ expenses = <<PairExpense, PairExpense>>
  /\ requests = [r \in 1..MaxRequests |-> Idle]
  /\ response = NoResponse

TargetOf(r) == ((r - 1) % 2) + 1

(* at most one request is between load and save on an expense *)
NoneLoaded(id) ==
  \A r \in 1..MaxRequests : requests[r].pc = "loaded" => requests[r].id # id

PairSubmit == \E u \in {"emp", "mgr"}, id \in PairIds : SubmitExpense(u, id)

PairBeginA ==
  \E r \in 1..MaxRequests, u \in {"mgr", "fin"} :
     NoneLoaded(TargetOf(r)) /\ BeginApprove(r, u, TargetOf(r), NoComment)

PairBeginR ==
  \E r \in 1..MaxRequests, u \in {"mgr", "fin"} :
     NoneLoaded(TargetOf(r)) /\ BeginReject(r, u, TargetOf(r), <<"x">>)

NextPair == PairSubmit \/ PairBeginA \/ PairBeginR \/ FinishA \/ FinishR

SpecPair == InitPair /\ [][NextPair]_vars

-----------------------------------------------------------------------------
(* Several administrators: the administrator changes roles through          *)
(* PUT /api/users/:id, then the employee creates expenses with the same     *)
(* content in the organization as it then is.                               *)

AdminTargets == {"mgr", "fin"}

AdminRoles == {"employee", "manager", "admin"}

InitAdmins ==
  /\ \E m \in {NoUser, "mgr"} : users = Staff(m, TRUE)
  /\ \E en \in BOOLEAN : company = Organization(<<>>, en, 10000, ActiveCategories)
  /\ expenses = <<>>
  /\ requests = [r \in 1..MaxRequests |-> Idle]
  /\ response = NoResponse

Promote ==
  /\ expenses = <<>>
  /\ \E target \in AdminTargets, role \in AdminRoles :
        UpdateUser("admin", target, [role |-> role])

CreateSame ==
  /\ Len(expenses) < MaxSame
  /\ \E admin \in Users \cup {NoUser} :
        CreateExpense("emp", 100, "USD", <<"Travel">>, NoNumber, admin)

NextAdmins == Promote \/ CreateSame

SpecAdmins == InitAdmins /\ [][NextAdmins]_vars

-----------------------------------------------------------------------------
(* Expense.approve and Expense.reject called on the stored document without *)
(* the route's canBeApprovedBy check, on an expense that went through the   *)
(* routes; the document is saved when the method returns.                   *)

CallApprove(u, id, c) ==
  /\ id \in DOMAIN expenses
  /\ UNCHANGED <<users, company, requests>>
  /\ IF transitionThrows(expenses[id], u)
     THEN /\ response' = Response("Expense.approve", u, id, 500,
                                 "Unauthorized to approve this expense")
          /\ UNCHANGED expenses
     ELSE /\ expenses' = [expenses EXCEPT
                            ![id] = save(@, @, approve(@, u, c, Now(@)), Now(@))]
          /\ response' = Response("Expense.approve", u, id, 200, "returned")

CallReject(u, id, c) ==
  /\ id \in DOMAIN expenses
  /\ UNCHANGED <<users, company, requests>>
  /\ IF transitionThrows(expenses[id], u)
     THEN /\ response' = Response("Expense.reject", u, id, 500,
                                 "Unauthorized to reject this expense")
          /\ UNCHANGED expenses
     ELSE /\ expenses' = [expenses EXCEPT
                            ![id] = save(@, @, reject(@, u, c, Now(@)), Now(@))]
          /\ response' = Response("Expense.reject", u, id, 200, "returned")

DirectApprove == AttachOpen /\ \E u \in {"mgr", "fin"} : CallApprove(u, 1, NoComment)

DirectReject == AttachOpen /\ \E u \in {"mgr", "fin"} : CallReject(u, 1, <<"x">>)

NextMethods ==
  \/ CreateOne \/ SubmitOne \/ ApproveOne \/ RejectOne
  \/ DirectApprove \/ DirectReject

SpecMethods == InitAttach /\ [][NextMethods]_vars

-----------------------------------------------------------------------------
(* routes/expenses.js GET /pending/approval and the pendingApprovals count  *)
(* of routes/reports.js GET /dashboard.  Both run the same query: expenses  *)
(* of the company in pending_approval with a step matching                  *)
(* $elemMatch { approver: req.user.id, status: 'pending' }.  The listing    *)
(* answers page 1 with limit 10, which holds every match here.              *)

pendingQuery(exps, u) ==
  { i \in DOMAIN exps :
      /\ exps[i].status = "pending_approval"
      /\ \E k \in DOMAIN exps[i].approvalWorkflow.steps :
            /\ exps[i].approvalWorkflow.steps[k].approver = u
            /\ exps[i].approvalWorkflow.steps[k].status = "pending" }

PendingApproval(u) ==
  /\ UNCHANGED <<users, company, expenses, requests>>
  /\ IF ~requirePermission(users[u], "approve_expenses")
     THEN response' = Request({}, "pendingApproval", u, 0, 403, "Insufficient permissions")
     ELSE response' = Request(pendingQuery(expenses, u), "pendingApproval", u, 0, 200, "")

Dashboard(u) ==
  /\ UNCHANGED <<users, company, expenses, requests>>
  /\ LET pendingApprovals ==
           IF users[u].role # "employee"
           THEN Cardinality(pendingQuery(expenses, u))
           ELSE 0
     IN  response' = Request(pendingApprovals, "dashboard", u, 0, 200, "")

ListPending == \E u \in Users : PendingApproval(u)

CountPending == \E u \in Users : Dashboard(u)

NextList ==
  \/ CreateOne \/ SubmitOne \/ ApproveOne \/ RejectOne
  \/ ListPending \/ CountPending

SpecList == InitAttach /\ [][NextList]_vars

-----------------------------------------------------------------------------
(* The employee as a possible approver of the employee's own expense: the   *)
(* admin assigns the employee a manager (routes/users.js accepts any user   *)
(* of the company, the employee included), names users in a specific rule   *)
(* and changes the employee's role, before and after the expense is made.   *)

SelfManagers == {NoUser, "mgr", "emp"}

SelfRoles == {"employee", "manager"}

SelfRuleBodies ==
  { RuleBody("specific", NoNumber, <<Approver("emp")>>, NoNumber, NoNumber, <<>>),
    RuleBody("specific", NoNumber, <<Approver("fin")>>, NoNumber, NoNumber, <<>>) }

AssignManager == \E m \in SelfManagers : UpdateUser("admin", "emp", [manager |-> m])

ChangeRole == \E role \in SelfRoles : UpdateUser("admin", "emp", [role |-> role])

NameApprover ==
  /\ Len(company.approvalRules) < MaxRules
  /\ \E body \in SelfRuleBodies : AddApprovalRule("admin", body)

NextSelf ==
  \/ CreateOne \/ SubmitOne \/ ApproveOne \/ RejectOne
  \/ AssignManager \/ ChangeRole \/ NameApprover

SpecSelf == InitOrg /\ [][NextSelf]_vars

-----------------------------------------------------------------------------
(* The requests of Spec on one expense, with approvers who keep acting:      *)
(* whenever the expense is pending, the approver of its active step sends   *)
(* PUT /:id/approve sooner or later.  The request is the whole handler,     *)
(* permission check included.                                               *)

CreateLive == expenses = <<>> /\ Create

ActiveApproverActs(id) ==
  /\ id \in DOMAIN expenses
  /\ expenses[id].status = "pending_approval"
  /\ HasActiveStep(expenses[id])
  /\ ApproveExpense(ActiveStep(expenses[id]).approver, id, NoComment)

NextLive == CreateLive \/ Submit \/ Approve \/ Reject

SpecLive ==
  /\ Init
  /\ [][NextLive]_vars
  /\ \A id \in ExpenseIds : WF_vars(ActiveApproverActs(id))

-----------------------------------------------------------------------------
(* Properties.  A step of the specification is one request; response' is    *)
(* the answer to it, the unprimed variables the state it was made in.       *)

WorkflowOf(e) == e.approvalWorkflow

StepsOf(e) == e.approvalWorkflow.steps

IsTransitionCall(resp, i) == resp.op \in {"approve", "reject"} /\ resp.id = i

(* C1, as stated: for every expense in pending_approval, at every position  *)
(* of currentStep, an approve or reject call by a user other than the       *)
(* approver of steps[currentStep] fails with an authorization error (403)   *)
(* and leaves the expense unchanged.                                        *)
C1_GateAlwaysAuthorizationError ==
  [][\A i \in DOMAIN expenses :
       ( /\ IsTransitionCall(response', i)
         /\ expenses[i].status = "pending_approval"
         /\ HasActiveStep(expenses[i])
         /\ response'.user # ActiveStep(expenses[i]).approver )
       => ( /\ response'.code = 403
            /\ expenses'[i] = expenses[i] )]_vars

(* C1, amended: such a call always fails and leaves the expense (status,    *)
(* currentStep, finalStatus, every step) unchanged; the failure is an       *)
(* authorization error (403), except for a reject call with absent or empty *)
(* comments by a caller holding reject_expenses, which fails with the       *)
(* validation error (400) that the route checks before the approver.        *)
C1_AuthorizationGate ==
  [][\A i \in DOMAIN expenses :
       ( /\ IsTransitionCall(response', i)
         /\ expenses[i].status = "pending_approval"
         /\ HasActiveStep(expenses[i])
         /\ response'.user # ActiveStep(expenses[i]).approver )
       => ( /\ expenses'[i] = expenses[i]
            /\ \/ response'.code = 403
               \/ /\ response'.op = "reject"
                  /\ response'.code = 400
                  /\ response'.message = "Validation errors"
                  /\ hasPermission(users[response'.user], "reject_expenses") )]_vars

(* C1 witness: a user holding the permission, who is not the approver of    *)
(* the active step, was refused at a step position after the first.         *)
C1_Witness ==
  \E i \in DOMAIN expenses :
     /\ IsTransitionCall(response, i)
     /\ response.code = 403
     /\ hasPermission(users[response.user], "approve_expenses")
     /\ expenses[i].status = "pending_approval"
     /\ expenses[i].approvalWorkflow.currentStep >= 1
     /\ response.user # ActiveStep(expenses[i]).approver

(* C2: once finalStatus is set, every later approve or reject call, by any  *)
(* user, fails and leaves the whole expense record unchanged (status,       *)
(* approvalWorkflow, approvedAt, rejectedAt).                               *)
C2_TerminalIsFinal ==
  [][\A i \in DOMAIN expenses :
       ( /\ IsTransitionCall(response', i)
         /\ expenses[i].approvalWorkflow.finalStatus # NoStatus )
       => ( /\ response'.code # 200
            /\ expenses'[i] = expenses[i] )]_vars

(* C2 witness: the approver of the last processed step called again after   *)
(* the expense was completed, and was refused.                              *)
C2_Witness ==
  \E i \in DOMAIN expenses :
     /\ IsTransitionCall(response, i)
     /\ response.code = 403
     /\ expenses[i].approvalWorkflow.finalStatus # NoStatus
     /\ HasActiveStep(expenses[i])
     /\ ActiveStep(expenses[i]).approver = response.user
     /\ ActiveStep(expenses[i]).status # "pending"

(* C3: with approve/reject requests interleaved at their awaits, no stored  *)
(* record mixes an approval and a rejection: none has status rejected with  *)
(* the active step approved, a rejected step below currentStep, or both     *)
(* approvedAt and rejectedAt set.                                           *)
C3_NoMixedRecord ==
  \A i \in DOMAIN expenses :
     LET e == expenses[i]
     IN  /\ ~( /\ e.status = "rejected"
               /\ HasActiveStep(e)
               /\ ActiveStep(e).status = "approved" )
         /\ ~(\E k \in DOMAIN StepsOf(e) :
                 k - 1 < e.approvalWorkflow.currentStep /\ StepsOf(e)[k].status = "rejected")
         /\ ~(e.approvedAt # NoDate /\ e.rejectedAt # NoDate)

(* C4: in an organization with no manager link and no approval rules, an    *)
(* expense in pending_approval has the single fallback step of an admin,    *)
(* and the approve call of that admin succeeds: status approved,            *)
(* currentStep 0, finalStatus approved.                                     *)
C4_ScenarioA ==
  [][\A i \in DOMAIN expenses :
       ( /\ company.approvalRules = <<>>
         /\ users[expenses[i].employee].manager = NoUser
         /\ expenses[i].status = "pending_approval"
         /\ response'.op = "approve"
         /\ response'.id = i
         /\ HasActiveStep(expenses[i])
         /\ response'.user = ActiveStep(expenses[i]).approver )
       => ( /\ Len(StepsOf(expenses[i])) = 1
            /\ users[response'.user].role = "admin"
            /\ response'.code = 200
            /\ expenses'[i].status = "approved"
            /\ expenses'[i].approvalWorkflow.currentStep = 0
            /\ expenses'[i].approvalWorkflow.finalStatus = "approved" )]_vars

(* the partition of the steps of every expense by its currentStep *)
C5_PartitionInv ==
  \A i \in DOMAIN expenses :
     LET e == expenses[i]
         cs == e.approvalWorkflow.currentStep
     IN  Len(StepsOf(e)) > 0 =>
           /\ HasActiveStep(e)
           /\ \A k \in DOMAIN StepsOf(e) :
                 /\ k - 1 < cs => StepsOf(e)[k].status = "approved"
                 /\ k - 1 > cs => /\ StepsOf(e)[k].status = "pending"
                                  /\ StepsOf(e)[k].comments = NoComment
                                  /\ StepsOf(e)[k].processedAt = NoDate
           /\ e.status \in {"draft", "pending_approval"} => ActiveStep(e).status = "pending"

SuccessfulCall(resp, op, i) == resp.op = op /\ resp.id = i /\ resp.code = 200

(* C6, as stated: currentStep never decreases, every successful approval    *)
(* increases it by exactly 1, and a rejection never changes it.             *)
C6_EveryApprovalAdvances ==
  [][\A i \in DOMAIN expenses :
       LET cs == expenses[i].approvalWorkflow.currentStep
           csNext == expenses'[i].approvalWorkflow.currentStep
       IN  /\ csNext >= cs
           /\ SuccessfulCall(response', "approve", i) => csNext = cs + 1
           /\ (response'.op = "reject" /\ response'.id = i) => csNext = cs]_vars

(* C6, amended: currentStep never decreases; a successful approval of a     *)
(* step that is not the last increases it by exactly 1; a successful        *)
(* approval of the last step leaves it unchanged; nothing else changes it,  *)
(* in particular no rejection, successful or failed.                        *)
C6_MonotonicAdvance ==
  [][\A i \in DOMAIN expenses :
       LET cs == expenses[i].approvalWorkflow.currentStep
           csNext == expenses'[i].approvalWorkflow.currentStep
       IN  /\ csNext >= cs
           /\ SuccessfulCall(response', "approve", i)
                => csNext = IF cs + 1 < Len(StepsOf(expenses[i])) THEN cs + 1 ELSE cs
           /\ ~SuccessfulCall(response', "approve", i) => csNext = cs]_vars

(* C6 witness: an approval has succeeded at a position after the first *)
C6_Witness ==
  \E i \in DOMAIN expenses :
     /\ SuccessfulCall(response, "approve", i)
     /\ expenses[i].approvalWorkflow.currentStep >= 1

(* C7: a successful reject at position k marks steps[k] rejected, moves the *)
(* expense to rejected with finalStatus rejected, rejectedAt and            *)
(* completedAt set, whatever steps remain; the steps before k stay          *)
(* approved, the steps after k stay pending and currentStep stays k.        *)
C7_RejectIsTerminal ==
  [][\A i \in DOMAIN expenses :
       SuccessfulCall(response', "reject", i) =>
         LET k == expenses[i].approvalWorkflow.currentStep
             after == expenses'[i]
         IN  /\ StepsOf(after)[k + 1].status = "rejected"
             /\ after.status = "rejected"
             /\ after.approvalWorkflow.finalStatus = "rejected"
             /\ after.rejectedAt # NoDate
             /\ after.approvalWorkflow.completedAt # NoDate
             /\ after.approvedAt = NoDate
             /\ after.approvalWorkflow.currentStep = k
             /\ Len(StepsOf(after)) = Len(StepsOf(expenses[i]))
             /\ \A j \in DOMAIN StepsOf(after) :
                   /\ j < k + 1 => /\ StepsOf(after)[j].status = "approved"
                                   /\ StepsOf(after)[j] = StepsOf(expenses[i])[j]
                   /\ j > k + 1 => /\ StepsOf(after)[j].status = "pending"
                                   /\ StepsOf(after)[j] = StepsOf(expenses[i])[j]]_vars

(* C7 witness: a rejection succeeded at the middle step of three *)
C7_Witness ==
  \E i \in DOMAIN expenses :
     /\ SuccessfulCall(response, "reject", i)
     /\ expenses[i].status = "rejected"
     /\ expenses[i].approvalWorkflow.currentStep = 1
     /\ Len(StepsOf(expenses[i])) = 3

(* an approved expense with a non-empty chain has every step approved *)
C8_ApprovedInv ==
  \A i \in DOMAIN expenses :
     (expenses[i].status = "approved" /\ Len(StepsOf(expenses[i])) > 0)
     => \A k \in DOMAIN StepsOf(expenses[i]) : StepsOf(expenses[i])[k].status = "approved"

C9_SubmitGuard ==
  [][\A i \in DOMAIN expenses :
       /\ (response'.op = "submit" /\ response'.id = i) =>
            /\ response'.code = 200 =>
                 (response'.user = expenses[i].employee /\ expenses[i].status = "draft")
            /\ response'.user # expenses[i].employee =>
                 (response'.code = 403 /\ response'.message = "Access denied")
            /\ (response'.user = expenses[i].employee /\ expenses[i].status # "draft") =>
                 response'.code = 400
            /\ response'.code # 200 => expenses'[i] = expenses[i]
       /\ expenses[i].submittedAt # NoDate =>
            expenses'[i].submittedAt = expenses[i].submittedAt]_vars

(* C9 witness: the owner submitted an expense that was no longer a draft *)
C9_Witness ==
  \E i \in DOMAIN expenses :
     /\ response.op = "submit"
     /\ response.id = i
     /\ response.code = 400
     /\ response.user = expenses[i].employee
     /\ expenses[i].status = "pending_approval"

(* an expense with an empty workflow is never pending_approval or rejected *)
C10_NeverPendingInv ==
  \A i \in DOMAIN expenses :
     Len(StepsOf(expenses[i])) = 0 => expenses[i].status \in {"draft", "approved"}

(* C10: submitting a draft with zero steps moves it straight to approved    *)
(* with approvedAt, completedAt and finalStatus approved, and it is never   *)
(* in pending_approval; submitting a draft with at least one step moves it  *)
(* to pending_approval with finalStatus unset.                              *)
C10_ZeroStepAutoApproval ==
  /\ []C10_NeverPendingInv
  /\ [][\A i \in DOMAIN expenses :
          SuccessfulCall(response', "submit", i) =>
            LET after == expenses'[i]
            IN  /\ expenses[i].status = "draft"
                /\ after.submittedAt # NoDate
                /\ IF Len(StepsOf(expenses[i])) = 0
                   THEN /\ after.status = "approved"
                        /\ after.approvedAt # NoDate
                        /\ after.approvalWorkflow.completedAt # NoDate
                        /\ after.approvalWorkflow.finalStatus = "approved"
                   ELSE /\ after.status = "pending_approval"
                        /\ after.approvedAt = NoDate
                        /\ after.approvalWorkflow.completedAt = NoDate
                        /\ after.approvalWorkflow.finalStatus = NoStatus]_vars

(* C10 witness: an expense with an empty workflow was submitted *)
C10_Witness ==
  \E i \in DOMAIN expenses :
     /\ SuccessfulCall(response, "submit", i)
     /\ Len(StepsOf(expenses[i])) = 0
     /\ expenses[i].status = "approved"

(* C11: canBeApprovedBy(userId) answers true if and only if the status is   *)
(* pending_approval, steps[currentStep] exists, its approver is userId and  *)
(* its status is pending; so it is false for every user on a draft,         *)
(* approved or rejected document and for the approvers of other steps.      *)
C11_CanActOnIff ==
  response.op = "canBeApprovedBy" =>
    LET e == expenses[response.id]
        k == e.approvalWorkflow.currentStep + 1
    IN  (response.message = "true")
          <=> ( /\ e.status = "pending_approval"
                /\ k <= Len(StepsOf(e))
                /\ StepsOf(e)[k].approver = response.user
                /\ StepsOf(e)[k].status = "pending" )

(* C11 witness: the approver of the active step of a pending_approval       *)
(* document is refused because that step is no longer pending               *)
C11_Witness ==
  /\ response.op = "canBeApprovedBy"
  /\ response.message = "false"
  /\ expenses[response.id].status = "pending_approval"
  /\ HasActiveStep(expenses[response.id])
  /\ ActiveStep(expenses[response.id]).approver = response.user
  /\ ActiveStep(expenses[response.id]).status = "approved"

(* C12: after creation the steps of an expense never change in length, in  *)
(* order, or in any step's approver or order value, whatever request is     *)
(* handled: submit, approve, reject, a rule added, the manager setting      *)
(* switched, the employee given another manager.                            *)
C12_StepsFrozen ==
  [][\A i \in DOMAIN expenses :
       /\ i \in DOMAIN expenses'
       /\ Len(StepsOf(expenses'[i])) = Len(StepsOf(expenses[i]))
       /\ \A k \in DOMAIN StepsOf(expenses[i]) :
             /\ StepsOf(expenses'[i])[k].approver = StepsOf(expenses[i])[k].approver
             /\ StepsOf(expenses'[i])[k].order = StepsOf(expenses[i])[k].order]_vars

(* C12 witness: an expense in its workflow keeps the manager step it was    *)
(* built with although by now a rule exists, the manager setting is off and *)
(* the employee reports to somebody else                                    *)
C12_Witness ==
  /\ expenses # <<>>
  /\ expenses[1].status = "rejected"
  /\ Len(StepsOf(expenses[1])) = 2
  /\ StepsOf(expenses[1])[1].approver = "mgr"
  /\ StepsOf(expenses[1])[2].status = "pending"
  /\ users["emp"].manager = "fin"
  /\ ~company.settings.isManagerApproverEnabled
  /\ Len(company.approvalRules) > 0

(* C13: amount, currency (code and rate) and convertedAmount of an expense  *)
(* are those of its creation: no submit, approve, reject, note or receipt   *)
(* request changes them.                                                    *)
C13_AmountsFrozen ==
  [][\A i \in DOMAIN expenses :
       /\ i \in DOMAIN expenses'
       /\ expenses'[i].amount = expenses[i].amount
       /\ expenses'[i].currency = expenses[i].currency
       /\ expenses'[i].convertedAmount = expenses[i].convertedAmount]_vars

(* C13 witness: an approved expense in a foreign currency that was saved    *)
(* six times after its creation: submitted, approved twice, one note added, *)
(* one receipt uploaded and deleted again                                   *)
C13_Witness ==
  /\ expenses # <<>>
  /\ expenses[1].status = "approved"
  /\ expenses[1].currency.rate = 2
  /\ expenses[1].convertedAmount = 200
  /\ Len(expenses[1].notes) = 1
  /\ expenses[1].receipts = <<>>
  /\ expenses[1].updatedAt = 7

-----------------------------------------------------------------------------
(* The workflow builder (SpecBuild): the expense built and its organization *)

BuiltSteps == StepsOf(expenses[1])

OwnerManager == users[expenses[1].employee].manager

ManagerInjected == company.settings.isManagerApproverEnabled /\ OwnerManager # NoUser

NamedByRule(u) ==
  \E r \in DOMAIN company.approvalRules :
     \E k \in DOMAIN company.approvalRules[r].specificApprovers :
        company.approvalRules[r].specificApprovers[k].user = u

(* C14: when isManagerApproverEnabled is true and the employee has a        *)
(* manager, the workflow built at creation has that manager as the approver *)
(* of step 0 (order 0, status pending), whatever rules match; when the      *)
(* setting is false or there is no manager, no manager step is emitted: the *)
(* manager is in the chain only where a rule names that user.               *)
C14_ManagerFirst ==
  expenses # <<>> =>
    /\ ManagerInjected =>
          /\ Len(BuiltSteps) > 0
          /\ BuiltSteps[1].approver = OwnerManager
          /\ BuiltSteps[1].order = 0
          /\ BuiltSteps[1].status = "pending"
    /\ ~ManagerInjected =>
          \A k \in DOMAIN BuiltSteps :
             BuiltSteps[k].approver = OwnerManager => NamedByRule(OwnerManager)

(* C14 witness: a manager step stands before the steps of a matching        *)
(* specific rule                                                            *)
C14_Witness ==
  /\ expenses # <<>>
  /\ ManagerInjected
  /\ Len(company.approvalRules) = 1
  /\ company.approvalRules[1].type = "specific"
  /\ Len(BuiltSteps) >= 2
  /\ BuiltSteps[1].approver = "mgr"
  /\ BuiltSteps[2].approver = "fin"

(* the applicability C15 states, of the rule as it was configured *)
ConfiguredApplicable(body, convertedAmount, category) ==
  /\ convertedAmount >= (IF body.minAmount = NoNumber THEN 0 ELSE body.minAmount)
  /\ body.maxAmount # NoNumber => convertedAmount <= body.maxAmount
  /\ \/ body.categories = <<>>
     \/ \E k \in DOMAIN body.categories : body.categories[k] = category

(* C15: the builder treats a rule as applicable if and only if it is        *)
(* active, convertedAmount >= minAmount (0 when unset), convertedAmount <=  *)
(* maxAmount whenever maxAmount is set to any number (including 0), and     *)
(* categories is empty or contains the category; here for the rule the      *)
(* administrator has just configured and the expense created next.          *)
C15_ApplicableAsConfigured ==
  [][(/\ response.op = "addRule" /\ response.code = 201
      /\ expenses = <<>> /\ expenses' # <<>>)
     => LET rule == company.approvalRules[Len(company.approvalRules)]
            e == expenses'[1]
        IN  isApplicable(rule, e.convertedAmount, e.category)
              <=> ConfiguredApplicable(response.body, e.convertedAmount, e.category)]_vars

ApplicableRules ==
  {r \in DOMAIN company.approvalRules :
     isApplicable(company.approvalRules[r], expenses[1].convertedAmount,
                  expenses[1].category)}

FirstApplicable == CHOOSE r \in ApplicableRules : \A q \in ApplicableRules : r <= q

RuleUsers(r) ==
  {company.approvalRules[r].specificApprovers[k].user :
     k \in DOMAIN company.approvalRules[r].specificApprovers}

(* the users the manager step and the first applicable rule put in the chain *)
Contributors ==
  (IF ManagerInjected THEN {OwnerManager} ELSE {})
  \cup (IF ApplicableRules # {}
           /\ company.approvalRules[FirstApplicable].type \in {"specific", "hybrid"}
        THEN RuleUsers(FirstApplicable) ELSE {})

ActiveAdmins == {u \in Users : users[u].role = "admin" /\ users[u].isActive}

BuiltApprovers == {BuiltSteps[k].approver : k \in DOMAIN BuiltSteps}

(* C16: only the first applicable rule in the organization's rule order     *)
(* contributes to the chain: every approver of the chain is the manager or  *)
(* an approver of that rule, and when that rule is of type percentage it    *)
(* contributes nothing and no later applicable rule takes its place.        *)
C16_FirstRuleOnly ==
  expenses # <<>> =>
    /\ Contributors # {} => BuiltApprovers = Contributors
    /\ Contributors = {} => BuiltApprovers \subseteq ActiveAdmins

(* C16 witness: a percentage rule and a specific rule both apply, the       *)
(* percentage rule first, and the chain has none of the specific rule's     *)
(* approvers                                                                *)
C16_Witness ==
  /\ expenses # <<>>
  /\ ApplicableRules = {1, 2}
  /\ company.approvalRules[1].type = "percentage"
  /\ company.approvalRules[2].type = "specific"
  /\ RuleUsers(2) = {"fin", "mgr"}
  /\ BuiltApprovers = {"admin"}

(* C17: the builder skips every specificApprovers entry whose user is       *)
(* already an approver in the chain (the manager, or an earlier entry of    *)
(* the same list), so no built workflow contains two steps with the same    *)
(* approver.                                                                *)
C17_NoDuplicateApprovers ==
  expenses # <<>> =>
    \A j, k \in DOMAIN BuiltSteps :
       j # k => BuiltSteps[j].approver # BuiltSteps[k].approver

(* C18: the fallback step (approver an active admin, order 0, pending) is   *)
(* in the workflow if and only if the chain is empty after the manager step *)
(* and the rule expansion and an active admin exists; with an empty chain   *)
(* and no active admin the workflow has zero steps; a non-empty chain gets  *)
(* no admin step.                                                           *)
C18_FallbackAdmin ==
  expenses # <<>> =>
    /\ (Contributors = {} /\ ActiveAdmins # {}) =>
          /\ Len(BuiltSteps) = 1
          /\ BuiltSteps[1].approver \in ActiveAdmins
          /\ BuiltSteps[1].order = 0
          /\ BuiltSteps[1].status = "pending"
    /\ (Contributors = {} /\ ActiveAdmins = {}) => BuiltSteps = <<>>
    /\ Contributors # {} =>
          \A k \in DOMAIN BuiltSteps : users[BuiltSteps[k].approver].role # "admin"

(* C18 witness: a percentage rule applies, the employee has no manager, and *)
(* the workflow is the single step of the active admin                      *)
C18_Witness ==
  /\ expenses # <<>>
  /\ ApplicableRules # {}
  /\ Contributors = {}
  /\ Len(BuiltSteps) = 1
  /\ BuiltSteps[1].approver = "admin"
  /\ users["admin"].isActive

ActiveCategoryName(c) ==
  \E k \in DOMAIN company.expenseCategories :
     /\ company.expenseCategories[k].name = c
     /\ company.expenseCategories[k].isActive

MayCreate(u) == "submit_expenses" \in getPermissions(users[u].role)

(* C19 as the code has it: a creation request of a caller allowed to submit *)
(* expenses whose category, with the surrounding whitespace removed, is not *)
(* the exact name of an active category is answered 400 and no expense is   *)
(* stored; every stored expense has the name of an active category.         *)
C19_TrimmedCategoryChecked ==
  /\ (/\ response.op = "create"
      /\ MayCreate(response.user)
      /\ ~ActiveCategoryName(Trim(response.body.category)))
     => (response.code = 400 /\ expenses = <<>>)
  /\ \A i \in DOMAIN expenses : ActiveCategoryName(expenses[i].category)

(* C19: createExpense with a category that is not the exact name of an      *)
(* active category of the organization fails with a validation error and no *)
(* expense record is created.                                               *)
C19_ExactCategoryChecked ==
  (/\ response.op = "create"
   /\ MayCreate(response.user)
   /\ ~ActiveCategoryName(response.body.category))
  => (response.code = 400 /\ expenses = <<>>)

(* C19 witness: the creation with the inactive category Gifts was refused   *)
C19_Witness ==
  /\ response.op = "create"
  /\ MayCreate(response.user)
  /\ response.body.category = <<"Gifts">>
  /\ response.code = 400
  /\ response.message = "Invalid expense category"
  /\ expenses = <<>>

(* C20: whenever convertedAmount is strictly greater than the configured    *)
(* settings.maxExpenseAmount, whatever its value (0 included), createExpense *)
(* fails and no expense is stored: a stored expense is within the limit.    *)
C20_LimitEnforced ==
  \A i \in DOMAIN expenses :
     expenses[i].convertedAmount <= company.settings.maxExpenseAmount

(* the creation requests of SpecBuild that pass every check but the lookup *)
Acceptable(u, amount, category) ==
  /\ MayCreate(u)
  /\ ActiveCategoryName(Trim(category))
  /\ company.settings.maxExpenseAmount # 0 => amount <= company.settings.maxExpenseAmount

(* C21: a failure of the currency-rate lookup never makes createExpense     *)
(* fail: the expense is created with currency.rate = 1 and convertedAmount  *)
(* = amount; when source and target currency are equal the rate is 1; and   *)
(* in every case the stored convertedAmount equals amount x stored rate.    *)
C21_LookupFailureDegrades ==
  [][/\ response'.op = "create" =>
           LET u == response'.user
               amount == response'.body.amount
               code == response'.body.currency.code
               category == response'.body.category
           IN  \A admin \in Users \cup {NoUser} :
                  (/\ CreateExpense(u, amount, code, category, NoNumber, admin)
                   /\ Acceptable(u, amount, category))
                  => /\ response'.code = 201
                     /\ Len(expenses') = Len(expenses) + 1
                     /\ expenses'[Len(expenses')].currency.rate = 1
                     /\ expenses'[Len(expenses')].convertedAmount = amount
     /\ \A i \in DOMAIN expenses' :
           /\ expenses'[i].convertedAmount
                 = expenses'[i].amount * expenses'[i].currency.rate
           /\ expenses'[i].currency.code = company.defaultCurrency.code
                 => expenses'[i].currency.rate = 1]_vars

(* C21 witness: an expense in a foreign currency was stored at the rate 1,  *)
(* which only the failed lookup gives                                       *)
C21_Witness ==
  /\ expenses # <<>>
  /\ expenses[1].currency.code = "EUR"
  /\ expenses[1].currency.rate = 1
  /\ expenses[1].amount = 100
  /\ expenses[1].convertedAmount = 100

-----------------------------------------------------------------------------
Blank(c) == c = NoComment \/ \A k \in DOMAIN c : c[k] = " "

MayReject(u) == "reject_expenses" \in getPermissions(users[u].role)

RejectedStepsCommented ==
  \A i \in DOMAIN expenses' :
     \A k \in DOMAIN StepsOf(expenses'[i]) :
        StepsOf(expenses'[i])[k].status = "rejected"
          => ~Blank(StepsOf(expenses'[i])[k].comments)

-----------------------------------------------------------------------------
(* the record the handler of the answered operation leaves when it runs     *)
(* alone, from load to save, on the expense as it is stored                 *)
AloneOn(e, op, u) ==
  CASE op = "submit" -> submitRoute(u, e, e).exp
    [] op = "approve" -> approveRoute(u, OptionalTrim(NoComment), e, e).exp
    [] op = "reject" -> rejectRoute(u, RequiredTrim(<<"x">>), e, e).exp
    [] OTHER -> e

(* C23: every submit, approve or reject on one expense leaves every other   *)
(* expense record and the organization's configuration unchanged, and what  *)
(* it does to its own expense is what it does when it runs alone on that    *)
(* expense, also when a request on the other expense ran between its load   *)
(* and its save; so operations on different expenses commute.               *)
C23_OtherExpensesUntouched ==
  [][/\ company' = company
     /\ users' = users
     /\ \A i \in PairIds :
           expenses'[i] # expenses[i] =>
             /\ response'.id = i
             /\ response'.op \in {"submit", "approve", "reject"}
             /\ \A j \in PairIds \ {i} : expenses'[j] = expenses[j]
             /\ expenses'[i] = AloneOn(expenses[i], response'.op, response'.user)]_vars

(* C23 witness: both requests went through load and save, one approved the  *)
(* first expense and the other rejected the second                          *)
C23_Witness ==
  /\ requests[1] = Done /\ requests[2] = Done
  /\ expenses[1].status = "approved"
  /\ expenses[2].status = "rejected"
  /\ expenses[1].updatedAt = 3 /\ expenses[2].updatedAt = 3

-----------------------------------------------------------------------------
SameSnapshot(e, f) ==
  /\ e.convertedAmount = f.convertedAmount
  /\ e.category = f.category
  /\ e.employee = f.employee

StepSequence(e) ==
  [k \in DOMAIN StepsOf(e) |->
     [approver |-> StepsOf(e)[k].approver, order |-> StepsOf(e)[k].order]]

(* C24: two createExpense calls with the same expense snapshot and the same *)
(* organization configuration produce the same sequence of step approvers   *)
(* and order values, including the admin chosen as fallback approver when   *)
(* the organization has several active admins.                              *)
C24_SameInputsSameChain ==
  \A i, j \in DOMAIN expenses :
     SameSnapshot(expenses[i], expenses[j])
       => StepSequence(expenses[i]) = StepSequence(expenses[j])

-----------------------------------------------------------------------------
IsPrefix(a, b) == Len(a) <= Len(b) /\ SubSeq(b, 1, Len(a)) = a

RemoveAt(seq, k) ==
  [j \in 1..(Len(seq) - 1) |-> IF j < k THEN seq[j] ELSE seq[j + 1]]

AttachmentCall(resp) == resp.op \in {"note", "upload", "deleteReceipt"}

(* an attachment operation never changes status or approvalWorkflow *)
AttachmentsLeaveWorkflow ==
  AttachmentCall(response') =>
    \A i \in DOMAIN expenses :
       /\ expenses'[i].status = expenses[i].status
       /\ expenses'[i].approvalWorkflow = expenses[i].approvalWorkflow

(* C25 as the code has it: notes are append-only; a receipt is never        *)
(* rewritten, and the only operation that removes one is the owner's        *)
(* DELETE /receipt/:expenseId/:receiptId, which removes exactly the named   *)
(* receipt; adding or deleting a receipt or adding a note never changes     *)
(* status or approvalWorkflow, whatever the status.                         *)
C25_AppendOrOwnerDelete ==
  [][/\ \A i \in DOMAIN expenses :
           /\ i \in DOMAIN expenses'
           /\ IsPrefix(expenses[i].notes, expenses'[i].notes)
           /\ \/ IsPrefix(expenses[i].receipts, expenses'[i].receipts)
              \/ /\ response'.op = "deleteReceipt"
                 /\ response'.user = expenses[i].employee
                 /\ \E k \in DOMAIN expenses[i].receipts :
                       expenses'[i].receipts = RemoveAt(expenses[i].receipts, k)
     /\ AttachmentsLeaveWorkflow]_vars

(* C25: the receipts and notes lists of an expense are append-only: no      *)
(* operation removes or rewrites an existing receipt or note, and adding a  *)
(* receipt or a note never changes status or approvalWorkflow.              *)
C25_AppendOnly ==
  [][/\ \A i \in DOMAIN expenses :
           /\ i \in DOMAIN expenses'
           /\ IsPrefix(expenses[i].notes, expenses'[i].notes)
           /\ IsPrefix(expenses[i].receipts, expenses'[i].receipts)
     /\ AttachmentsLeaveWorkflow]_vars

(* C25 witness: of two receipts the owner deleted the first; the second is  *)
(* still there                                                              *)
C25_Witness ==
  /\ expenses # <<>>
  /\ response.op = "deleteReceipt" /\ response.code = 200
  /\ response.user = expenses[1].employee
  /\ expenses[1].receipts = <<[id |-> 3]>>

-----------------------------------------------------------------------------
DirectCall(resp) == resp.op \in {"Expense.approve", "Expense.reject"}

(* C26: Expense.approve and Expense.reject enforce the state precondition   *)
(* themselves: called directly by the approver of steps[currentStep] on an  *)
(* expense whose status is not pending_approval or whose active step is no  *)
(* longer pending, they throw and leave the expense unchanged, so a         *)
(* rejected expense is never turned into an approved one or the reverse.    *)
C26_MethodsCheckState ==
  [][\A i \in DOMAIN expenses :
        (/\ DirectCall(response') /\ response'.id = i
         /\ \/ expenses[i].status # "pending_approval"
            \/ ~HasActiveStep(expenses[i])
            \/ ActiveStep(expenses[i]).status # "pending")
        => (response'.code = 500 /\ expenses'[i] = expenses[i])]_vars

-----------------------------------------------------------------------------
(* C27: in every reachable state of every expense, finalStatus is set if    *)
(* and only if status is approved or rejected, and then equals status;      *)
(* completedAt is set exactly when finalStatus is set; approvedAt is set    *)
(* only when status is approved and rejectedAt only when status is          *)
(* rejected; while status is draft every step is pending and currentStep    *)
(* is 0.                                                                    *)
C27_OutcomeFieldsAgree ==
  \A i \in DOMAIN expenses :
     LET e == expenses[i]
         w == e.approvalWorkflow
     IN  /\ (w.finalStatus # NoStatus) <=> (e.status \in {"approved", "rejected"})
         /\ w.finalStatus # NoStatus => w.finalStatus = e.status
         /\ (w.completedAt # NoDate) <=> (w.finalStatus # NoStatus)
         /\ e.approvedAt # NoDate => e.status = "approved"
         /\ e.rejectedAt # NoDate => e.status = "rejected"
         /\ e.status = "draft" =>
               /\ w.currentStep = 0
               /\ \A k \in DOMAIN w.steps : w.steps[k].status = "pending"

(* C28: every expense the pending-approval listing returns to a user, and   *)
(* every expense counted in the dashboard's pendingApprovals for that user, *)
(* is one the user can act on now: canBeApprovedBy holds of it for the      *)
(* user, who is the approver of steps[currentStep] and not only of a later  *)
(* pending step.                                                            *)
ActionableBy(u) == { i \in DOMAIN expenses : canBeApprovedBy(expenses[i], u) }

C28_ListedIsActionable ==
  /\ (response.op = "pendingApproval" /\ response.code = 200)
        => response.body \subseteq ActionableBy(response.user)
  /\ response.op = "dashboard"
        => response.body <= Cardinality(ActionableBy(response.user))

(* C29: no expense has the employee who owns it as the approver of one of   *)
(* its steps, whatever manager the employee is assigned (the employee       *)
(* included), whatever users the specific rules name and whatever role the  *)
(* employee is given later; so nobody approves or rejects their own         *)
(* expense.                                                                 *)
C29_OwnerNeverApprover ==
  \A i \in DOMAIN expenses :
     \A k \in DOMAIN StepsOf(expenses[i]) :
        StepsOf(expenses[i])[k].approver # expenses[i].employee

(* C30: a submitted expense reaches a terminal outcome.  While the approver  *)
(* of the active step keeps acting and holds approve_expenses, an expense   *)
(* in pending_approval eventually has status approved or rejected; every    *)
(* successful approve or reject is made on a pending expense and lowers the *)
(* number of steps still to be decided, which is at most n, so at most n    *)
(* successful actions are made on an expense of n steps and no sequence of  *)
(* them is infinite.                                                        *)
Terminal(id) ==
  id \in DOMAIN expenses /\ expenses[id].status \in {"approved", "rejected"}

ActiveApproverBarred(id) ==
  /\ id \in DOMAIN expenses
  /\ expenses[id].status = "pending_approval"
  /\ HasActiveStep(expenses[id])
  /\ "approve_expenses" \notin getPermissions(users[ActiveStep(expenses[id]).approver].role)

StepsToDecide(e) ==
  IF e.status = "pending_approval"
  THEN Len(StepsOf(e)) - WorkflowOf(e).currentStep
  ELSE 0

C30_SubmittedTerminates ==
  /\ \A id \in ExpenseIds :
        (id \in DOMAIN expenses /\ expenses[id].status = "pending_approval")
          ~> (Terminal(id) \/ ActiveApproverBarred(id))
  /\ [][\A id \in DOMAIN expenses :
          (SuccessfulCall(response', "approve", id) \/ SuccessfulCall(response', "reject", id))
            => /\ StepsToDecide(expenses[id]) \in 1..Len(StepsOf(expenses[id]))
               /\ StepsToDecide(expenses'[id]) < StepsToDecide(expenses[id])]_vars

(* an expense of two steps is approved by the second successful approval *)
C30_Witness ==
  \E id \in DOMAIN expenses :
     /\ Terminal(id)
     /\ Len(StepsOf(expenses[id])) = 2
     /\ WorkflowOf(expenses[id]).currentStep = 1
     /\ \A k \in 1..2 : StepsOf(expenses[id])[k].status = "approved"
     /\ response = Response("approve", StepsOf(expenses[id])[2].approver, id, 200,
                            "Expense approved successfully")

=============================================================================
